---- MODULE Spec2Model ----
(***************************************************************************)
(* Model of server.js: the users and game_scores tables behind the pool,   *)
(* and the request handlers /api/register, /api/game-score and             *)
(* /api/stats/:userId.  Every pool.query is one atomic step at the store;  *)
(* a handler is suspended at each await, so other handlers may run         *)
(* between two of its queries.                                             *)
(* /api/login, /api/users and /api/game-scores write nothing to            *)
(* game_scores and no row of users that a query of the other handlers      *)
(* reads; they are left out.                                               *)
(***************************************************************************)
EXTENDS Integers, Sequences, FiniteSets, TLC

VARIABLES users, ledger, clock, req

vars == <<users, ledger, clock, req>>

\* ------------------------------------------------------------- bounds
MaxReq == 2          \* requests, all of which may be in flight at once (SpecConc)
MaxLedger == 3       \* rows of game_scores (Spec)
MaxUsers == 2        \* rows of users
MaxLongLedger == 12  \* rows of game_scores (SpecLong)
MaxCollisions == 2   \* inserts that share a timestamp with their predecessor (SpecLong)
MaxOther == 1        \* rows of the second user (SpecLong)

\* LIMIT 10 of the recent games query
RecentLimit == 10

\* ------------------------------------------------------------- JSON values
\* A value of a request body: undefined (the key is absent), null, a number
\* or a string.
Undefined == [t |-> "undef", n |-> 0, s |-> ""]
JsNull == [t |-> "null", n |-> 0, s |-> ""]
Num(n) == [t |-> "num", n |-> n, s |-> ""]
Str(s) == [t |-> "str", n |-> 0, s |-> s]

\* JavaScript's !v
Falsy(v) ==
    \/ v.t \in {"undef", "null"}
    \/ v.t = "num" /\ v.n = 0
    \/ v.t = "str" /\ v.s = ""

\* NaN, or an integer
NaN == [nan |-> TRUE, n |-> 0]
Int32(n) == [nan |-> FALSE, n |-> n]

\* The decimal digits of n >= 0, as the driver returns a bigint
RECURSIVE Digits(_)
Digits(n) == IF n < 10 THEN <<n>> ELSE Append(Digits(n \div 10), n % 10)

\* parseInt of a digit string
RECURSIVE ParseDigits(_)
ParseDigits(d) ==
    IF d = <<>> THEN 0 ELSE 10 * ParseDigits(SubSeq(d, 1, Len(d) - 1)) + d[Len(d)]

\* parseInt(v) for a column value: NaN for null and undefined, the integer
\* for a number (its sign, then its digits)
ParseInt(v) ==
    IF v.t = "num"
        THEN Int32((IF v.n < 0 THEN -1 ELSE 1) * ParseDigits(Digits(IF v.n < 0 THEN -v.n ELSE v.n)))
        ELSE NaN

\* x || 0
OrZero(x) == IF x.nan \/ x.n = 0 THEN 0 ELSE x.n

Min(a, b) == IF a < b THEN a ELSE b

\* ------------------------------------------------------------- the store
\* users: rows [username, email], the row's id is its position.
\* ledger: rows of game_scores in insertion order,
\*         [userId, gameType, score, playedAt].

\* A parameter bound to an integer column: the store takes a number, and
\* rejects null and the empty string.
SqlInteger(v) == v.t = "num"

\* user_id without the reference to users
NoForeignKey(id) == TRUE

\* game_scores.user_id references users.id
UserExists(id) == id \in 1..Len(users)

\* SELECT id FROM users WHERE username = $1
UsernameRows(name) == {i \in 1..Len(users) : users[i].username = name}

\* SELECT id FROM users WHERE email = $1
EmailRows(mail) == {i \in 1..Len(users) : users[i].email = mail}

\* The rows WHERE user_id = $1
UserRows(L, u) == {i \in 1..Len(L) : L[i].userId = u}

\* The rows WHERE user_id = $1 AND game_type = $2
GameRows(L, u, g) == {i \in 1..Len(L) : L[i].userId = u /\ L[i].gameType = g}

\* SELECT COUNT(*) as total ... WHERE user_id = $1: one row, a bigint as text
CountTotal(L, u) == Digits(Cardinality(UserRows(L, u)))

\* MAX(score) over the rows in insertion order; null over no rows
RECURSIVE MaxFrom(_, _, _, _)
MaxFrom(L, rows, i, acc) ==
    IF i > Len(L) THEN acc
    ELSE IF i \notin rows THEN MaxFrom(L, rows, i + 1, acc)
    ELSE IF acc.t = "null" \/ L[i].score > acc.n THEN MaxFrom(L, rows, i + 1, Num(L[i].score))
    ELSE MaxFrom(L, rows, i + 1, acc)

\* MIN(score) over the rows in insertion order; null over no rows
RECURSIVE MinFrom(_, _, _, _)
MinFrom(L, rows, i, acc) ==
    IF i > Len(L) THEN acc
    ELSE IF i \notin rows THEN MinFrom(L, rows, i + 1, acc)
    ELSE IF acc.t = "null" \/ L[i].score < acc.n THEN MinFrom(L, rows, i + 1, Num(L[i].score))
    ELSE MinFrom(L, rows, i + 1, acc)

\* MAX(score) with the game_type condition dropped
MaxAnyGame(L, u) == MaxFrom(L, UserRows(L, u), 1, JsNull)

\* SELECT MAX(score) as best_score ... WHERE user_id = $1 AND game_type = 'clicker'
MaxClicker(L, u) == MaxFrom(L, GameRows(L, u, "clicker"), 1, JsNull)

\* MAX(score) in place of MIN(score)
MaxMemory(L, u) == MaxFrom(L, GameRows(L, u, "memory"), 1, JsNull)

\* SELECT MIN(score) as best_moves ... WHERE user_id = $1 AND game_type = 'memory'
MinMemory(L, u) == MinFrom(L, GameRows(L, u, "memory"), 1, JsNull)

\* All orders of a set of rows
RECURSIVE Perms(_)
Perms(S) ==
    IF S = {} THEN {<<>>}
    ELSE UNION {{<<x>> \o p : p \in Perms(S \ {x})} : x \in S}

\* ORDER BY played_at DESC: the rows by decreasing played_at; rows with equal
\* played_at come in any order the store likes.
RECURSIVE OrderByPlayedAtDesc(_, _)
OrderByPlayedAtDesc(L, S) ==
    IF S = {} THEN {<<>>}
    ELSE LET newest == CHOOSE i \in S : \A j \in S : L[j].playedAt <= L[i].playedAt
             group == {i \in S : L[i].playedAt = L[newest].playedAt}
         IN  UNION {{p \o r : r \in OrderByPlayedAtDesc(L, S \ group)} : p \in Perms(group)}

\* LIMIT n, off by one
LimitOneMore(s, n) == SubSeq(s, 1, Min(n + 1, Len(s)))

\* LIMIT n
Limit(s, n) == SubSeq(s, 1, Min(n, Len(s)))

\* The results the recent games query may return (rows named by position)
RecentGames(L, u) == {Limit(s, RecentLimit) : s \in OrderByPlayedAtDesc(L, UserRows(L, u))}

\* The row as selected: game_type, score, played_at
Selected(L, i) == [game_type |-> L[i].gameType, score |-> L[i].score, played_at |-> L[i].playedAt]

\* totalGames, bestClickerScore, bestMemoryMoves of the response
TotalGames(total) == OrZero(Int32(ParseDigits(total)))
BestClickerScore(best) == OrZero(ParseInt(best))
BestMemoryMoves(best) == OrZero(ParseInt(best))

\* ------------------------------------------------------------- requests
Reqs == 1..MaxReq

NoBody == [userId |-> Undefined, gameType |-> Undefined, score |-> Undefined]
NoReg == [username |-> "", email |-> "", password |-> ""]
NoStats == [totalGames |-> 0, bestClickerScore |-> 0, bestMemoryMoves |-> 0, recentGames |-> <<>>]

\* A handler slot.  route, pc: which handler and where it is suspended;
\* body, reg, uid: its input; total, bestC, bestM: the query results it
\* holds; status, stats: its response; err: why the store rejected its query.
\* at0, at4, row record the ledger length when the request arrived and when
\* its last query ran, and the position of the row it inserted.
Idle ==
    [route |-> "none", pc |-> "idle", body |-> NoBody, reg |-> NoReg, uid |-> 0,
     total |-> <<>>, bestC |-> JsNull, bestM |-> JsNull, recent |-> <<>>,
     status |-> 0, stats |-> NoStats, err |-> "", at0 |-> 0, at4 |-> 0, row |-> 0]

Init ==
    /\ users = <<>>
    /\ ledger = <<>>
    /\ clock = 0
    /\ req = [p \in Reqs |-> Idle]


\* The slot p after it answered with `status`
Answer(r, status, err) == [r EXCEPT !.pc = "done", !.status = status, !.err = err]

\* ------------------------------------------------------------- POST /api/register
Register(p, b) ==
    /\ req[p].pc = "idle"
    /\ req' = [req EXCEPT ![p] =
            IF b.username = "" \/ b.email = "" \/ b.password = ""
                THEN Answer([Idle EXCEPT !.route = "register", !.reg = b, !.at0 = Len(ledger)], 400, "")
                ELSE [Idle EXCEPT !.route = "register", !.reg = b, !.at0 = Len(ledger),
                                  !.pc = "usernameCheck"]]
    /\ UNCHANGED <<users, ledger, clock>>

UsernameCheck(p) ==
    /\ req[p].pc = "usernameCheck"
    /\ req' = [req EXCEPT ![p] =
            IF UsernameRows(req[p].reg.username) # {}
                THEN Answer(req[p], 400, "")
                ELSE [req[p] EXCEPT !.pc = "emailCheck"]]
    /\ UNCHANGED <<users, ledger, clock>>

EmailCheck(p) ==
    /\ req[p].pc = "emailCheck"
    /\ req' = [req EXCEPT ![p] =
            IF EmailRows(req[p].reg.email) # {}
                THEN Answer(req[p], 400, "")
                ELSE [req[p] EXCEPT !.pc = "createUser"]]
    /\ UNCHANGED <<users, ledger, clock>>

CreateUser(p) ==
    /\ req[p].pc = "createUser"
    /\ Len(users) < MaxUsers
    /\ users' = Append(users, [username |-> req[p].reg.username, email |-> req[p].reg.email])
    /\ req' = [req EXCEPT ![p] = Answer(req[p], 200, "")]
    /\ UNCHANGED <<ledger, clock>>

\* ------------------------------------------------------------- POST /api/game-score
\* The handler up to its await: the body is destructured and validated.
PostGameScore(p, b) ==
    /\ req[p].pc = "idle"
    /\ req' = [req EXCEPT ![p] =
            IF Falsy(b.userId) \/ Falsy(b.gameType) \/ b.score = Undefined
                THEN Answer([Idle EXCEPT !.route = "game-score", !.body = b, !.at0 = Len(ledger)], 400, "")
                ELSE [Idle EXCEPT !.route = "game-score", !.body = b, !.at0 = Len(ledger),
                                  !.pc = "insert"]]
    /\ UNCHANGED <<users, ledger, clock>>

\* The row the INSERT writes
NewRow(b) ==
    [userId |-> b.userId.n, gameType |-> b.gameType.s, score |-> b.score.n, playedAt |-> clock]

\* The INSERT skipped when the ledger already holds the triple
InsertGameScoreDedup(p) ==
    /\ req[p].pc = "insert"
    /\ LET b == req[p].body IN
        IF ~(SqlInteger(b.userId) /\ SqlInteger(b.score))
            THEN /\ req' = [req EXCEPT ![p] = Answer(req[p], 500, "type")]
                 /\ UNCHANGED ledger
        ELSE IF ~UserExists(b.userId.n)
            THEN /\ req' = [req EXCEPT ![p] = Answer(req[p], 500, "fk")]
                 /\ UNCHANGED ledger
        ELSE IF \E i \in DOMAIN ledger :
                    /\ ledger[i].userId = b.userId.n
                    /\ ledger[i].gameType = b.gameType.s
                    /\ ledger[i].score = b.score.n
            THEN /\ req' = [req EXCEPT ![p] = Answer(req[p], 200, "")]
                 /\ UNCHANGED ledger
        ELSE /\ ledger' = Append(ledger, NewRow(b))
             /\ req' = [req EXCEPT ![p] = Answer([req[p] EXCEPT !.row = Len(ledger) + 1], 200, "")]
    /\ UNCHANGED <<users, clock>>

\* The INSERT as a write-back of the ledger the handler saw when it started
InsertGameScoreStale(p) ==
    /\ req[p].pc = "insert"
    /\ LET b == req[p].body IN
        IF ~(SqlInteger(b.userId) /\ SqlInteger(b.score))
            THEN /\ req' = [req EXCEPT ![p] = Answer(req[p], 500, "type")]
                 /\ UNCHANGED ledger
        ELSE IF ~UserExists(b.userId.n)
            THEN /\ req' = [req EXCEPT ![p] = Answer(req[p], 500, "fk")]
                 /\ UNCHANGED ledger
        ELSE /\ ledger' = Append(SubSeq(ledger, 1, req[p].at0), NewRow(b))
             /\ req' = [req EXCEPT ![p] = Answer([req[p] EXCEPT !.row = req[p].at0 + 1], 200, "")]
    /\ UNCHANGED <<users, clock>>

\* The INSERT runs at the store, and the handler answers.
InsertGameScore(p) ==
    /\ req[p].pc = "insert"
    /\ LET b == req[p].body IN
        IF ~(SqlInteger(b.userId) /\ SqlInteger(b.score))
            THEN /\ req' = [req EXCEPT ![p] = Answer(req[p], 500, "type")]
                 /\ UNCHANGED ledger
        ELSE IF ~UserExists(b.userId.n)
            THEN /\ req' = [req EXCEPT ![p] = Answer(req[p], 500, "fk")]
                 /\ UNCHANGED ledger
        ELSE /\ ledger' = Append(ledger, NewRow(b))
             /\ req' = [req EXCEPT ![p] = Answer([req[p] EXCEPT !.row = Len(ledger) + 1], 200, "")]
    /\ UNCHANGED <<users, clock>>

\* ------------------------------------------------------------- GET /api/stats/:userId
GetStats(p, u) ==
    /\ req[p].pc = "idle"
    /\ req' = [req EXCEPT ![p] =
            [Idle EXCEPT !.route = "stats", !.uid = u, !.at0 = Len(ledger), !.pc = "totalGames"]]
    /\ UNCHANGED <<users, ledger, clock>>

\* COUNT(*) with the user_id condition dropped
TotalGamesAllUsers(p) ==
    /\ req[p].pc = "totalGames"
    /\ req' = [req EXCEPT ![p] =
            [req[p] EXCEPT !.total = Digits(Len(ledger)), !.pc = "bestClicker"]]
    /\ UNCHANGED <<users, ledger, clock>>

TotalGamesQuery(p) ==
    /\ req[p].pc = "totalGames"
    /\ req' = [req EXCEPT ![p] =
            [req[p] EXCEPT !.total = CountTotal(ledger, req[p].uid), !.pc = "bestClicker"]]
    /\ UNCHANGED <<users, ledger, clock>>

BestClickerQuery(p) ==
    /\ req[p].pc = "bestClicker"
    /\ req' = [req EXCEPT ![p] =
            [req[p] EXCEPT !.bestC = MaxClicker(ledger, req[p].uid), !.pc = "bestMemory"]]
    /\ UNCHANGED <<users, ledger, clock>>

BestMemoryQuery(p) ==
    /\ req[p].pc = "bestMemory"
    /\ req' = [req EXCEPT ![p] =
            [req[p] EXCEPT !.bestM = MinMemory(ledger, req[p].uid), !.pc = "recentGames"]]
    /\ UNCHANGED <<users, ledger, clock>>

\* The response built from the four results
StatsOf(r, rows) ==
    [totalGames |-> TotalGames(r.total),
     bestClickerScore |-> BestClickerScore(r.bestC),
     bestMemoryMoves |-> BestMemoryMoves(r.bestM),
     recentGames |-> [k \in 1..Len(rows) |-> Selected(ledger, rows[k])]]

\* The last query runs, and the handler answers with the stats.
RecentGamesQuery(p) ==
    /\ req[p].pc = "recentGames"
    /\ \E rows \in RecentGames(ledger, req[p].uid) :
        req' = [req EXCEPT ![p] =
            Answer([req[p] EXCEPT !.recent = rows, !.at4 = Len(ledger),
                                  !.stats = StatsOf(req[p], rows)], 200, "")]
    /\ UNCHANGED <<users, ledger, clock>>

\* ------------------------------------------------------------- the environment
QueryPcs ==
    {"usernameCheck", "emailCheck", "createUser", "insert",
     "totalGames", "bestClicker", "bestMemory", "recentGames"}

\* An INSERT that is applied although the handler answers 500
QueryErrorAfterWrite(p) ==
    /\ req[p].pc \in QueryPcs
    /\ req' = [req EXCEPT ![p] = Answer(req[p], 500, "unreachable")]
    /\ ledger' = IF req[p].pc = "insert" /\ SqlInteger(req[p].body.userId) /\ SqlInteger(req[p].body.score)
                    THEN Append(ledger, NewRow(req[p].body))
                    ELSE ledger
    /\ UNCHANGED <<users, clock>>

\* pool.query rejects (the store is unreachable): the handler's catch answers 500.
QueryError(p) ==
    /\ req[p].pc \in QueryPcs
    /\ req' = [req EXCEPT ![p] = Answer(req[p], 500, "unreachable")]
    /\ UNCHANGED <<users, ledger, clock>>

\* The response is delivered; the slot serves the next request.
Reply(p) ==
    /\ req[p].pc = "done"
    /\ req' = [req EXCEPT ![p] = Idle]
    /\ UNCHANGED <<users, ledger, clock>>

\* CURRENT_TIMESTAMP advances.
Tick ==
    /\ clock' = clock + 1
    /\ UNCHANGED <<users, ledger, req>>

\* ------------------------------------------------------------- inputs
RegBodies ==
    {[username |-> "ann", email |-> "ann@x", password |-> "pw"],
     [username |-> "bob", email |-> "bob@x", password |-> "pw"],
     [username |-> "bob", email |-> "", password |-> "pw"]}

Body(u, g, s) == [userId |-> u, gameType |-> g, score |-> s]

\* Bodies the validation accepts
ValidBodies ==
    {Body(Num(1), Str("clicker"), Num(2)), Body(Num(1), Str("clicker"), Num(-1)),
     Body(Num(1), Str("memory"), Num(0)), Body(Num(1), Str("memory"), Num(2)),
     Body(Num(1), Str("puzzle"), Num(3)), Body(Num(2), Str("clicker"), Num(3))}

\* Bodies with a key absent, null or empty
PartBodies ==
    {Body(Undefined, Str("clicker"), Num(2)), Body(Str(""), Str("clicker"), Num(2)),
     Body(Num(1), Undefined, Num(2)), Body(Num(1), Str(""), Num(2)),
     Body(Num(1), Str("clicker"), Undefined), Body(Num(1), Str("clicker"), Str("")),
     Body(Num(1), Str("clicker"), JsNull)}

ScoreBodies == ValidBodies \cup PartBodies

StatsUsers == {1, 2}

\* The current reading of the clock is in the ledger: the next row may carry
\* the same reading or, after a tick, the next one (readings no row carries
\* make no difference to a query).
ClockRead == ledger # <<>> /\ ledger[Len(ledger)].playedAt = clock

\* One handler at a time, over an empty store.
Next ==
    \/ \E b \in RegBodies : Register(1, b)
    \/ UsernameCheck(1)
    \/ EmailCheck(1)
    \/ CreateUser(1)
    \/ \E b \in ScoreBodies : PostGameScore(1, b)
    \/ Len(ledger) < MaxLedger /\ InsertGameScore(1)
    \/ \E u \in StatsUsers : GetStats(1, u)
    \/ TotalGamesQuery(1)
    \/ BestClickerQuery(1)
    \/ BestMemoryQuery(1)
    \/ RecentGamesQuery(1)
    \/ QueryError(1)
    \/ Reply(1)
    \/ ClockRead /\ Tick

Spec == Init /\ [][Next]_vars

\* ------------------------------------------------------------- concurrent handlers
\* MaxReq requests, each served by a handler of its own, interleaved at their
\* awaits; the responses are kept.  The store already holds two users.
TwoUsers ==
    <<[username |-> "ann", email |-> "ann@x"], [username |-> "bob", email |-> "bob@x"]>>

InitConc ==
    /\ users = TwoUsers
    /\ ledger = <<>>
    /\ clock = 0
    /\ req = [p \in Reqs |-> Idle]

ConcBodies ==
    {Body(Num(1), Str("clicker"), Num(1)), Body(Num(1), Str("clicker"), Num(2)),
     Body(Num(1), Str("memory"), Num(1)), Body(Num(2), Str("memory"), Num(2))}

NextConc ==
    \/ \E p \in Reqs, b \in ConcBodies : PostGameScore(p, b)
    \/ \E p \in Reqs : InsertGameScore(p)
    \/ \E p \in Reqs : GetStats(p, 1)
    \/ \E p \in Reqs : TotalGamesQuery(p)
    \/ \E p \in Reqs : BestClickerQuery(p)
    \/ \E p \in Reqs : BestMemoryQuery(p)
    \/ \E p \in Reqs : RecentGamesQuery(p)
    \/ \E p \in Reqs : QueryError(p)
    \/ ClockRead /\ Tick

SpecConc == InitConc /\ [][NextConc]_vars

\* ------------------------------------------------------------- a long ledger
\* Inserts that carry the timestamp of the row before them
Collisions(L) == Cardinality({i \in 2..Len(L) : L[i].playedAt = L[i - 1].playedAt})

LongBodies == {Body(Num(1), Str("clicker"), Num(2)), Body(Num(2), Str("memory"), Num(1))}

\* The store may take one more row within the bounds of the long ledger.
LongRoom(b) ==
    /\ Len(ledger) < MaxLongLedger
    /\ b.userId.n = 2 => Cardinality(UserRows(ledger, 2)) < MaxOther
    /\ ClockRead => Collisions(ledger) < MaxCollisions

NextLong ==
    \/ \E b \in LongBodies : PostGameScore(1, b)
    \/ LongRoom(req[1].body) /\ InsertGameScore(1)
    \/ \E u \in StatsUsers : GetStats(1, u)
    \/ TotalGamesQuery(1)
    \/ BestClickerQuery(1)
    \/ BestMemoryQuery(1)
    \/ RecentGamesQuery(1)
    \/ QueryError(1)
    \/ Reply(1)
    \/ ClockRead /\ Tick

SpecLong == InitConc /\ [][NextLong]_vars

\* ------------------------------------------------------------- the claims' vocabulary
\* A handler that answered
Done(p, route) == req[p].route = route /\ req[p].pc = "done"

\* The ledger as it was when it held k rows
Prefix(k) == SubSeq(ledger, 1, k)

\* The user's records, and those of one game type
RecordsOf(L, u) == {i \in DOMAIN L : L[i].userId = u}
RecordsOfGame(L, u, g) == {i \in RecordsOf(L, u) : L[i].gameType = g}

\* m is the highest (lowest) score of the records `rows`, and 0 when there
\* is none
IsHighest(L, rows, m) ==
    IF rows = {} THEN m = 0
    ELSE (\E i \in rows : L[i].score = m) /\ (\A i \in rows : L[i].score <= m)

IsLowest(L, rows, m) ==
    IF rows = {} THEN m = 0
    ELSE (\E i \in rows : L[i].score = m) /\ (\A i \in rows : L[i].score >= m)

\* r lists records of u once each, newest first, and no record it leaves
\* out was played after one it lists
IsMostRecent(L, u, r) ==
    /\ \A a \in DOMAIN r : r[a] \in RecordsOf(L, u)
    /\ \A a, b \in DOMAIN r : a < b => r[a] # r[b] /\ L[r[a]].playedAt >= L[r[b]].playedAt
    /\ Len(r) = Min(RecentLimit, Cardinality(RecordsOf(L, u)))
    /\ \A i \in RecordsOf(L, u) :
            (\A a \in DOMAIN r : r[a] # i) => \A a \in DOMAIN r : L[i].playedAt <= L[r[a]].playedAt

\* The records S by playedAt descending, those of equal playedAt by
\* insertion, the later first
RECURSIVE NewestFirst(_, _)
NewestFirst(L, S) ==
    IF S = {} THEN <<>>
    ELSE LET top == CHOOSE i \in S : \A j \in S \ {i} :
                        \/ L[j].playedAt < L[i].playedAt
                        \/ L[j].playedAt = L[i].playedAt /\ j < i
         IN  <<top>> \o NewestFirst(L, S \ {top})

\* The rows of the response are the listed records
ShowsRows(L, r, games) ==
    /\ Len(games) = Len(r)
    /\ \A a \in DOMAIN r :
        games[a] = [game_type |-> L[r[a]].gameType, score |-> L[r[a]].score,
                    played_at |-> L[r[a]].playedAt]

\* A body with a key absent or empty
MissingOrEmpty(v) == v.t \in {"undef", "null"} \/ v = Str("")
Incomplete(b) == MissingOrEmpty(b.userId) \/ MissingOrEmpty(b.gameType) \/ MissingOrEmpty(b.score)

\* ------------------------------------------------------------- C1
\* C1: a successful recordScore appends exactly one record, carrying the
\* triple it was given, and the user's totalGames grows by exactly one, also
\* when an identical triple is already in the ledger.
C1_RecordScoreAddsOne ==
    [][\A p \in Reqs :
        (req[p].pc = "insert" /\ req'[p].pc = "done" /\ req'[p].status = 200) =>
            LET b == req[p].body IN
            /\ Len(ledger') = Len(ledger) + 1
            /\ ledger'[Len(ledger')].userId = b.userId.n
            /\ ledger'[Len(ledger')].gameType = b.gameType.s
            /\ ledger'[Len(ledger')].score = b.score.n
            /\ TotalGames(CountTotal(ledger', b.userId.n))
                    = TotalGames(CountTotal(ledger, b.userId.n)) + 1
            /\ Cardinality(RecordsOf(ledger', b.userId.n))
                    = Cardinality(RecordsOf(ledger, b.userId.n)) + 1]_vars

\* A recordScore has just succeeded with a triple the ledger already held.
C1_Witness ==
    /\ Done(1, "game-score") /\ req[1].status = 200 /\ req[1].row = Len(ledger)
    /\ \E i \in 1..(Len(ledger) - 1) :
        /\ ledger[i].userId = ledger[Len(ledger)].userId
        /\ ledger[i].gameType = ledger[Len(ledger)].gameType
        /\ ledger[i].score = ledger[Len(ledger)].score

\* ------------------------------------------------------------- C2
\* C2: the bestClickerScore of a returned snapshot is the maximum score of
\* the user's clicker records (other game types and users ignored), 0 when
\* there is none.
C2_BestClickerIsMax ==
    (Done(1, "stats") /\ req[1].status = 200) =>
        IsHighest(ledger, RecordsOfGame(ledger, req[1].uid, "clicker"), req[1].stats.bestClickerScore)

\* A snapshot over clicker records of different scores, next to a higher
\* score of another game type.
C2_Witness ==
    /\ Done(1, "stats") /\ req[1].status = 200
    /\ \E i, j \in RecordsOfGame(ledger, req[1].uid, "clicker") :
            i < j /\ ledger[i].score > ledger[j].score
    /\ \E i \in RecordsOf(ledger, req[1].uid) :
            ledger[i].gameType # "clicker" /\ ledger[i].score > req[1].stats.bestClickerScore

\* ------------------------------------------------------------- C3
\* C3: the bestMemoryMoves of a returned snapshot is the minimum score of
\* the user's memory records (other game types and users ignored), 0 when
\* there is none.
C3_BestMemoryIsMin ==
    (Done(1, "stats") /\ req[1].status = 200) =>
        IsLowest(ledger, RecordsOfGame(ledger, req[1].uid, "memory"), req[1].stats.bestMemoryMoves)

\* A snapshot over memory records of different scores, next to a lower score
\* of another game type.
C3_Witness ==
    /\ Done(1, "stats") /\ req[1].status = 200
    /\ \E i, j \in RecordsOfGame(ledger, req[1].uid, "memory") :
            i < j /\ ledger[i].score < ledger[j].score
    /\ \E i \in RecordsOf(ledger, req[1].uid) :
            ledger[i].gameType # "memory" /\ ledger[i].score < req[1].stats.bestMemoryMoves

\* ------------------------------------------------------------- C4
\* C4: the recentGames of a returned snapshot has at most 10 entries, all of
\* them records of that user; with 11 or more records it is 10 most
\* recently played ones, newest first, and with fewer it is all of them,
\* newest first.
C4_RecentGamesBounded ==
    (Done(1, "stats") /\ req[1].status = 200) =>
        /\ Len(req[1].stats.recentGames) <= RecentLimit
        /\ IsMostRecent(Prefix(req[1].at4), req[1].uid, req[1].recent)
        /\ ShowsRows(ledger, req[1].recent, req[1].stats.recentGames)

\* A snapshot of a user with 11 or more records, in a ledger that also holds
\* another user's record.
C4_Witness ==
    /\ Done(1, "stats") /\ req[1].status = 200
    /\ Cardinality(RecordsOf(ledger, req[1].uid)) > RecentLimit
    /\ Len(req[1].recent) = RecentLimit
    /\ \E i \in DOMAIN ledger : ledger[i].userId # req[1].uid

\* ------------------------------------------------------------- C5
\* C5: records of equal playedAt are listed most recently inserted first, and
\* when the cut falls among records of equal playedAt, the ones kept are the
\* most recently inserted.
C5_TiesByInsertionOrder ==
    \A g \in Reqs :
        (Done(g, "stats") /\ req[g].status = 200) =>
            LET L == Prefix(req[g].at4)
                r == Limit(NewestFirst(L, RecordsOf(L, req[g].uid)), RecentLimit)
            IN  ShowsRows(L, r, req[g].stats.recentGames)

\* ------------------------------------------------------------- C6
\* C6: a recordScore whose score is the integer 0, with userId and gameType
\* given, is accepted and its record is in the ledger; one with userId,
\* gameType or score missing or empty answers 400 and never reaches the
\* store.
C6_ValidationError ==
    \A p \in Reqs :
        req[p].route = "game-score" =>
            LET b == req[p].body IN
            /\ (b.score = Num(0) /\ ~Incomplete(b)) =>
                    /\ req[p].pc = "done" => req[p].status # 400
                    /\ req[p].status = 200 =>
                            /\ ledger[req[p].row].score = 0
                            /\ req[p].row \in RecordsOf(ledger, b.userId.n)
            /\ Incomplete(b) => req[p].pc = "done" /\ req[p].status = 400

\* ------------------------------------------------------------- C7
\* C7: the only step that changes the ledger is a recordScore answering 200,
\* which adds one record after the existing ones and alters none of them; a
\* recordScore answering 400 or 500 and every step of getStats leave the
\* ledger as it was.
C7_AppendOnly ==
    [][\/ ledger' = ledger
       \/ \E p \in Reqs :
            /\ req[p].route = "game-score" /\ req[p].pc = "insert"
            /\ req'[p].pc = "done" /\ req'[p].status = 200
            /\ Len(ledger') = Len(ledger) + 1
            /\ SubSeq(ledger', 1, Len(ledger)) = ledger]_vars

\* A recordScore has failed at the store while the ledger holds records.
C7_Witness ==
    /\ Done(1, "game-score") /\ req[1].status = 500 /\ req[1].err = "unreachable"
    /\ ledger # <<>>

C9_RecordsReferenceUsers ==
    /\ \A i \in DOMAIN ledger : ledger[i].userId \in 1..Len(users)
    /\ \A p \in Reqs :
        (Done(p, "game-score") /\ ~Incomplete(req[p].body)
                /\ req[p].body.userId.n \notin 1..Len(users)) =>
            req[p].status = 500 /\ req[p].row = 0

\* A recordScore was rejected for its unknown user while another user is
\* registered.
C9_Witness ==
    /\ Done(1, "game-score") /\ req[1].status = 500 /\ req[1].err = "fk"
    /\ users # <<>>

\* ------------------------------------------------------------- C10
\* The snapshot of g taken of the ledger as it was when it held k rows
SnapshotAt(g, k) ==
    /\ req[g].stats.totalGames = Cardinality(RecordsOf(Prefix(k), req[g].uid))
    /\ IsHighest(Prefix(k), RecordsOfGame(Prefix(k), req[g].uid, "clicker"),
                 req[g].stats.bestClickerScore)
    /\ IsLowest(Prefix(k), RecordsOfGame(Prefix(k), req[g].uid, "memory"),
                req[g].stats.bestMemoryMoves)
    /\ IsMostRecent(Prefix(k), req[g].uid, req[g].recent)

\* C10 as claimed: every returned snapshot is the aggregates of the ledger at
\* one single point between the call and its return, so recentGames has
\* min(10, totalGames) entries and shows no clicker or memory record better
\* than the reported best.
C10_SnapshotAtOnePoint ==
    \A g \in Reqs :
        (Done(g, "stats") /\ req[g].status = 200) =>
            /\ \E k \in req[g].at0..Len(ledger) : SnapshotAt(g, k)
            /\ Len(req[g].stats.recentGames) = Min(RecentLimit, req[g].stats.totalGames)
            /\ \A a \in DOMAIN req[g].stats.recentGames :
                LET row == req[g].stats.recentGames[a] IN
                /\ row.game_type = "clicker" => row.score <= req[g].stats.bestClickerScore
                /\ row.game_type = "memory" => row.score >= req[g].stats.bestMemoryMoves

\* C10 as amended: each field of a returned snapshot is the aggregate of the
\* ledger at a point between the call and its return, the four points in the
\* order of the queries; recentGames has at least min(10, totalGames) and at
\* most 10 entries; and when no record was added between the call and the
\* last query, the snapshot is the aggregates of the ledger at that point.
C10_FieldsEachAtAPoint ==
    \A g \in Reqs :
        (Done(g, "stats") /\ req[g].status = 200) =>
            /\ \E k1, k2, k3 \in req[g].at0..req[g].at4 :
                /\ k1 <= k2 /\ k2 <= k3
                /\ req[g].stats.totalGames = Cardinality(RecordsOf(Prefix(k1), req[g].uid))
                /\ IsHighest(Prefix(k2), RecordsOfGame(Prefix(k2), req[g].uid, "clicker"),
                             req[g].stats.bestClickerScore)
                /\ IsLowest(Prefix(k3), RecordsOfGame(Prefix(k3), req[g].uid, "memory"),
                            req[g].stats.bestMemoryMoves)
            /\ IsMostRecent(Prefix(req[g].at4), req[g].uid, req[g].recent)
            /\ ShowsRows(ledger, req[g].recent, req[g].stats.recentGames)
            /\ Len(req[g].stats.recentGames) >= Min(RecentLimit, req[g].stats.totalGames)
            /\ Len(req[g].stats.recentGames) <= RecentLimit
            /\ req[g].at0 = req[g].at4 => SnapshotAt(g, req[g].at4)

\* A snapshot was returned whose queries a recordScore for the same user
\* interleaved with: it reports fewer games than it lists.
C10_Witness ==
    \E g \in Reqs :
        /\ Done(g, "stats") /\ req[g].status = 200
        /\ req[g].at0 < req[g].at4
        /\ req[g].stats.totalGames < Len(req[g].stats.recentGames)

====
